---- MODULE Spec2Model ----
(***************************************************************************)
(* Model of api/routers/assessments.py: the HTTP route handlers for        *)
(* assessment sessions.  Each handler is an operator taking the database   *)
(* state and the request and returning the ordered trace of collaborator   *)
(* calls it makes, the HTTP response and the database state afterwards.    *)
(* The collaborators that are imported by the router but defined in other  *)
(* modules (AssessmentService, require_permission) are modelled from the   *)
(* specification and carry the prefix svc_ / the name of the dependency.   *)
(***************************************************************************)
EXTENDS Integers, Sequences, FiniteSets, TLC

\* ------------------------------------------------------------------ bounds
MaxSessions == 1
MaxStage == 2

\* ---------------------------------------------------------- value domains
\* Python's None, as a value of a str-typed position.
None == "None"

Users == {"alice", "bob", "carol"}
SessionTypes == {"compliance_setup"}
KnownProfiles == {"bp1"}
ProfileIds == {"bp1", "bpX"}
AssessmentTypes == {"basic", "full"}
QuestionIds == {"q1", "q2"}
ResponseValues == {"yes", "no"}
Stages == 1..MaxStage
RequestedIds == 1..(MaxSessions + 1)

\* A list-typed attribute that may also be None.
NoneList == [null |-> TRUE, items |-> <<>>]
List(s) == [null |-> FALSE, items |-> s]
\* Python truthiness of such an attribute: None and [] are falsy.
TruthyList(l) == (~l.null) /\ Len(l.items) > 0
\* Python truthiness of a str-or-None value: None and "" are falsy.
Truthy(v) == v # None /\ v # ""

\* dict.get(key): the value, or None when the key is absent.
DictGet(d, k) == IF k \in DOMAIN d THEN d[k] ELSE None

\* ------------------------------------------------------------ HTTP shapes
HTTP_200_OK == 200
HTTP_201_CREATED == 201
HTTP_400_BAD_REQUEST == 400
HTTP_403_FORBIDDEN == 403
HTTP_404_NOT_FOUND == 404
HTTP_500_INTERNAL == 500

NoSession == [kind |-> "None"]
SessionBody(s) == [kind |-> "session", session |-> s]
ErrorBody(d) == [kind |-> "error", detail |-> d]

HTTPException(code, d) == [status |-> code, body |-> ErrorBody(d)]

\* A handler declared with response_model=AssessmentSessionResponse: the
\* returned value is validated against the model, and None does not validate.
ResponseModel(code, body) ==
  IF body = NoSession
  THEN [status |-> HTTP_500_INTERNAL, body |-> ErrorBody("response validation")]
  ELSE [status |-> code, body |-> body]

\* A handler declared without response_model: the value is returned as is.
PlainResponse(code, body) == [status |-> code, body |-> body]

\* --------------------------------------------------------- trace events
PermEv(p) == [ev |-> "require_permission", name |-> p]
DbExecuteEv == [ev |-> "db.execute", name |-> "select ComplianceFramework where is_active"]
SvcUserEv(m, u) == [ev |-> "service", name |-> m, user |-> u]
SvcSessionEv(m, u, sid) == [ev |-> "service", name |-> m, user |-> u, session_id |-> sid]
SvcStartEv(u, t, bp) ==
  [ev |-> "service", name |-> "start_assessment_session", user |-> u,
   session_type |-> t, business_profile_id |-> bp]
SvcUpdateEv(u, sid, q, r) ==
  [ev |-> "service", name |-> "update_assessment_response", user |-> u,
   session_id |-> sid, question_id |-> q, response |-> r]
SvcQuestionsEv(u, st) ==
  [ev |-> "service", name |-> "get_assessment_questions", user |-> u, stage |-> st]

\* ------------------------------------------------- permission dependency
Grants ==
  [u \in Users |->
     CASE u = "alice" -> {"assessment_create", "assessment_list", "assessment_update"}
       [] u = "bob"   -> {"assessment_create"}
       [] OTHER       -> {"assessment_list"}]

\* require_permission(name): yields the caller, or rejects with Forbidden.
require_permission(name, user) == name \in Grants[user]

Forbidden(name, db) ==
  [trace |-> <<PermEv(name)>>,
   response |-> HTTPException(HTTP_403_FORBIDDEN, "Forbidden"),
   db |-> db]

VARIABLES sessions, active, last, written

vars == <<sessions, active, last, written>>

\* ------------------------------------------------------ AssessmentService
\* The service is imported from services.assessment_service; its methods are
\* modelled from the specification's description of them.  A lookup that
\* finds no session owned by the caller yields None, the convention the
\* router itself relies on ("if not session").
NewSession(id, u, t, bp) ==
  [id |-> id, user |-> u, session_type |-> t, business_profile_id |-> bp,
   responses |-> {}, recommendations |-> NoneList, status |-> "in_progress"]

Owned(db, u, sid) == sid \in 1..Len(db) /\ db[sid].user = u

MaxOf(S) == CHOOSE m \in S : \A n \in S : n <= m

svc_get_user_assessment_sessions(db, u) == SelectSeq(db, LAMBDA s : s.user = u)

svc_start_assessment_session(db, u, t, bp) ==
  IF bp \notin KnownProfiles
  THEN [raised |-> TRUE, db |-> db, result |-> NoSession]
  ELSE LET s == NewSession(Len(db) + 1, u, t, bp)
       IN [raised |-> FALSE, db |-> Append(db, s), result |-> SessionBody(s)]

svc_get_current_assessment_session(db, u) ==
  LET mine == {i \in 1..Len(db) : db[i].user = u /\ db[i].status = "in_progress"}
  IN IF mine = {} THEN NoSession ELSE SessionBody(db[MaxOf(mine)])

svc_get_assessment_session(db, u, sid) ==
  IF Owned(db, u, sid) THEN SessionBody(db[sid]) ELSE NoSession

svc_get_assessment_questions(u, stage) ==
  IF stage = 1 THEN <<"q1">> ELSE IF stage = 2 THEN <<"q2">> ELSE <<>>

svc_update_assessment_response(db, u, sid, q, r) ==
  IF ~Owned(db, u, sid)
  THEN [db |-> db, result |-> NoSession]
  ELSE LET s == [db[sid] EXCEPT !.responses = {p \in @ : p[1] # q} \cup {<<q, r>>}]
       IN [db |-> [db EXCEPT ![sid] = s], result |-> SessionBody(s)]

svc_complete_assessment_session(db, u, sid, gen) ==
  IF ~Owned(db, u, sid)
  THEN [db |-> db, result |-> NoSession]
  ELSE LET s == [db[sid] EXCEPT !.status = "completed", !.recommendations = gen]
       IN [db |-> [db EXCEPT ![sid] = s], result |-> SessionBody(s)]

\* A failure raised by the service propagates unhandled to the framework.
ServiceFailure == HTTPException(HTTP_500_INTERNAL, "service failure")

\* Recommendation lists the service may persist when it completes a session.
PersistedA ==
  [framework |-> [id |-> "fw-9", name |-> <<"P", "C", "I">>, description |-> "persisted"],
   priority |-> "Critical", description |-> "From the completed assessment"]
PersistedB ==
  [framework |-> [id |-> "fw-1", name |-> <<"G", "D", "P", "R">>, description |-> "persisted"],
   priority |-> "Low", description |-> "From the completed assessment"]
GeneratedChoices == {List(<<PersistedB, PersistedA>>)}

\* ------------------------------------------------------------- handlers
QuickRecommendation(name, fdesc, priority, desc) ==
  [framework |-> [name |-> name, description |-> fdesc],
   priority |-> priority, description |-> desc]

\* Variant: the industry_standard flag is not consulted.
quick_assessment_flagless(db, current_user, request) ==
  IF ~require_permission("assessment_create", current_user)
  THEN Forbidden("assessment_create", db)
  ELSE
    [trace |-> <<PermEv("assessment_create")>>,
     response |-> PlainResponse(HTTP_200_OK,
       [kind |-> "quick",
        recommendations |->
          << QuickRecommendation(
               "GDPR (General Data Protection Regulation)",
               "EU data protection regulation", "high",
               "Essential for businesses handling personal data of EU residents"),
             QuickRecommendation(
               "ISO 27001", "Information security management standard", "medium",
               "Industry standard for information security management"),
             QuickRecommendation(
               "SOC 2", "Security and availability controls", "medium",
               "Important for service organizations handling customer data") >>]),
     db |-> db]

quick_assessment(db, current_user, request) ==
  IF ~require_permission("assessment_create", current_user)
  THEN Forbidden("assessment_create", db)
  ELSE
    LET r0 == <<>>
        r1 == Append(r0, QuickRecommendation(
                "GDPR (General Data Protection Regulation)",
                "EU data protection regulation", "high",
                "Essential for businesses handling personal data of EU residents"))
        r2 == IF request.industry_standard
              THEN Append(
                     Append(r1, QuickRecommendation(
                       "ISO 27001", "Information security management standard", "medium",
                       "Industry standard for information security management")),
                     QuickRecommendation(
                       "SOC 2", "Security and availability controls", "medium",
                       "Important for service organizations handling customer data"))
              ELSE r1
    IN [trace |-> <<PermEv("assessment_create")>>,
        response |-> PlainResponse(HTTP_200_OK,
                       [kind |-> "quick", recommendations |-> r2]),
        db |-> db]

list_assessments(db, current_user) ==
  IF ~require_permission("assessment_list", current_user)
  THEN Forbidden("assessment_list", db)
  ELSE
    LET found == svc_get_user_assessment_sessions(db, current_user)
    IN [trace |-> <<PermEv("assessment_list"),
                    SvcUserEv("get_user_assessment_sessions", current_user)>>,
        response |-> PlainResponse(HTTP_200_OK, [kind |-> "sessions", sessions |-> found]),
        db |-> db]

\* Variant: the two arguments of start_assessment_session are exchanged.
create_assessment_swapped(db, current_user, session_data) ==
  IF ~require_permission("assessment_create", current_user)
  THEN Forbidden("assessment_create", db)
  ELSE
    LET r == svc_start_assessment_session(db, current_user,
               session_data.business_profile_id, session_data.session_type)
    IN [trace |-> <<PermEv("assessment_create"),
                    SvcStartEv(current_user, session_data.business_profile_id,
                               session_data.session_type)>>,
        response |-> IF r.raised THEN ServiceFailure
                     ELSE ResponseModel(HTTP_201_CREATED, r.result),
        db |-> r.db]

create_assessment(db, current_user, session_data) ==
  IF ~require_permission("assessment_create", current_user)
  THEN Forbidden("assessment_create", db)
  ELSE
    LET r == svc_start_assessment_session(db, current_user,
               session_data.session_type, session_data.business_profile_id)
    IN [trace |-> <<PermEv("assessment_create"),
                    SvcStartEv(current_user, session_data.session_type,
                               session_data.business_profile_id)>>,
        response |-> IF r.raised THEN ServiceFailure
                     ELSE ResponseModel(HTTP_201_CREATED, r.result),
        db |-> r.db]

start_assessment(db, current_user, session_data) ==
  IF ~require_permission("assessment_create", current_user)
  THEN Forbidden("assessment_create", db)
  ELSE
    LET r == svc_start_assessment_session(db, current_user,
               session_data.session_type, session_data.business_profile_id)
    IN [trace |-> <<PermEv("assessment_create"),
                    SvcStartEv(current_user, session_data.session_type,
                               session_data.business_profile_id)>>,
        response |-> IF r.raised THEN ServiceFailure
                     ELSE ResponseModel(HTTP_201_CREATED, r.result),
        db |-> r.db]

get_current_session(db, current_user) ==
  IF ~require_permission("assessment_list", current_user)
  THEN Forbidden("assessment_list", db)
  ELSE
    LET session == svc_get_current_assessment_session(db, current_user)
    IN [trace |-> <<PermEv("assessment_list"),
                    SvcUserEv("get_current_assessment_session", current_user)>>,
        response |-> IF session = NoSession
                     THEN HTTPException(HTTP_404_NOT_FOUND, "No active assessment session")
                     ELSE ResponseModel(HTTP_200_OK, session),
        db |-> db]

get_questions(db, current_user, stage) ==
  IF ~require_permission("assessment_list", current_user)
  THEN Forbidden("assessment_list", db)
  ELSE
    LET questions == svc_get_assessment_questions(current_user, stage)
    IN [trace |-> <<PermEv("assessment_list"), SvcQuestionsEv(current_user, stage)>>,
        response |-> PlainResponse(HTTP_200_OK,
                       [kind |-> "questions", questions |-> questions]),
        db |-> db]

\* Variant: question id and response are passed in each other's place.
update_response_swapped(db, current_user, session_id, response_data) ==
  IF ~require_permission("assessment_update", current_user)
  THEN Forbidden("assessment_update", db)
  ELSE
    LET r == svc_update_assessment_response(db, current_user, session_id,
               response_data.response, response_data.question_id)
    IN [trace |-> <<PermEv("assessment_update"),
                    SvcUpdateEv(current_user, session_id,
                                response_data.response, response_data.question_id)>>,
        response |-> PlainResponse(HTTP_200_OK, r.result),
        db |-> r.db]

update_response(db, current_user, session_id, response_data) ==
  IF ~require_permission("assessment_update", current_user)
  THEN Forbidden("assessment_update", db)
  ELSE
    LET r == svc_update_assessment_response(db, current_user, session_id,
               response_data.question_id, response_data.response)
    IN [trace |-> <<PermEv("assessment_update"),
                    SvcUpdateEv(current_user, session_id,
                                response_data.question_id, response_data.response)>>,
        response |-> PlainResponse(HTTP_200_OK, r.result),
        db |-> r.db]

\* Variant: the presence check is missing.
update_responses_unchecked(db, current_user, session_id, response_data) ==
  IF ~require_permission("assessment_update", current_user)
  THEN Forbidden("assessment_update", db)
  ELSE
    LET question_id == DictGet(response_data, "question_id")
        response == DictGet(response_data, "response")
        r == svc_update_assessment_response(db, current_user, session_id,
               question_id, response)
    IN [trace |-> <<PermEv("assessment_update"),
                    SvcUpdateEv(current_user, session_id, question_id, response)>>,
        response |-> PlainResponse(HTTP_200_OK, r.result),
        db |-> r.db]

\* Variant: the check is "question_id is None" instead of "not question_id".
update_responses_isnone(db, current_user, session_id, response_data) ==
  IF ~require_permission("assessment_update", current_user)
  THEN Forbidden("assessment_update", db)
  ELSE
    LET question_id == DictGet(response_data, "question_id")
        response == DictGet(response_data, "response")
    IN IF question_id = None
       THEN [trace |-> <<PermEv("assessment_update")>>,
             response |-> HTTPException(HTTP_400_BAD_REQUEST, "question_id is required"),
             db |-> db]
       ELSE
         LET r == svc_update_assessment_response(db, current_user, session_id,
                    question_id, response)
         IN [trace |-> <<PermEv("assessment_update"),
                         SvcUpdateEv(current_user, session_id, question_id, response)>>,
             response |-> PlainResponse(HTTP_200_OK, r.result),
             db |-> r.db]

update_responses(db, current_user, session_id, response_data) ==
  IF ~require_permission("assessment_update", current_user)
  THEN Forbidden("assessment_update", db)
  ELSE
    LET question_id == DictGet(response_data, "question_id")
        response == DictGet(response_data, "response")
    IN IF ~Truthy(question_id)
       THEN [trace |-> <<PermEv("assessment_update")>>,
             response |-> HTTPException(HTTP_400_BAD_REQUEST, "question_id is required"),
             db |-> db]
       ELSE
         LET r == svc_update_assessment_response(db, current_user, session_id,
                    question_id, response)
         IN [trace |-> <<PermEv("assessment_update"),
                         SvcUpdateEv(current_user, session_id, question_id, response)>>,
             response |-> PlainResponse(HTTP_200_OK, r.result),
             db |-> r.db]

get_assessment_session(db, current_user, session_id) ==
  IF ~require_permission("assessment_list", current_user)
  THEN Forbidden("assessment_list", db)
  ELSE
    LET session == svc_get_assessment_session(db, current_user, session_id)
    IN [trace |-> <<PermEv("assessment_list"),
                    SvcSessionEv("get_assessment_session", current_user, session_id)>>,
        response |-> IF session = NoSession
                     THEN HTTPException(HTTP_404_NOT_FOUND, "Assessment session not found")
                     ELSE ResponseModel(HTTP_200_OK, session),
        db |-> db]

\* Variant: the route is declared with the permission of the read routes.
complete_assessment_listperm(db, current_user, session_id, gen) ==
  IF ~require_permission("assessment_list", current_user)
  THEN Forbidden("assessment_list", db)
  ELSE
    LET r == svc_complete_assessment_session(db, current_user, session_id, gen)
    IN [trace |-> <<PermEv("assessment_list"),
                    SvcSessionEv("complete_assessment_session", current_user, session_id)>>,
        response |-> ResponseModel(HTTP_200_OK, r.result),
        db |-> r.db]

complete_assessment(db, current_user, session_id, gen) ==
  IF ~require_permission("assessment_update", current_user)
  THEN Forbidden("assessment_update", db)
  ELSE
    LET r == svc_complete_assessment_session(db, current_user, session_id, gen)
    IN [trace |-> <<PermEv("assessment_update"),
                    SvcSessionEv("complete_assessment_session", current_user, session_id)>>,
        response |-> ResponseModel(HTTP_200_OK, r.result),
        db |-> r.db]

\* ------------------------------------------- compliance framework store
\* A name is a sequence of characters, so that Python's "in" on strings is
\* a substring search.
GDPR == <<"G", "D", "P", "R">>
ISO == <<"I", "S", "O">>

\* sub in s
Contains(sub, s) ==
  \E i \in 0..(Len(s) - Len(sub)) : SubSeq(s, i + 1, i + Len(sub)) = sub

FrameworkNames ==
  << <<"G", "D", "P", "R", " ", "F", "o", "o">>,
     <<"I", "S", "O", " ", "9", "0", "0", "0">>,
     <<"P", "r", "i", "v", "a", "c", "y", " ", "A", "c", "t">>,
     <<"O", "t", "h", "e", "r">>,
     <<"I", "S", "O", "/", "G", "D", "P", "R">>,
     <<"g", "d", "p", "r", " ", "i", "s", "o">> >>

NumFrameworks == Len(FrameworkNames)

\* str(framework.id)
UuidStr(id) == <<"fw-1", "fw-2", "fw-3", "fw-4", "fw-5", "fw-6">>[id]

FrameworkRows(on) ==
  [i \in 1..NumFrameworks |->
     [id |-> i, name |-> FrameworkNames[i], description |-> "reference data",
      is_active |-> (i \in on)]]

\* The ComplianceFramework table: the catalogue, with the rows in active flagged.
frameworks == FrameworkRows(active)

DefaultActive == {1, 2, 3, 5, 6}

Reverse(q) == [i \in 1..Len(q) |-> q[Len(q) + 1 - i]]

\* select(ComplianceFramework).where(ComplianceFramework.is_active): the
\* query names no ordering, so the rows come in an order the database picks.
SelectActive(fw, order) ==
  LET rows == SelectSeq(fw, LAMBDA f : f.is_active)
  IN IF order = "desc" THEN Reverse(rows) ELSE rows

RowOrders == {"asc", "desc"}

\* Variant: the substring filter is missing, every active framework is listed.
RECURSIVE SynthesizeUnfiltered(_)
SynthesizeUnfiltered(rows) ==
  IF rows = <<>> THEN <<>>
  ELSE
    LET framework == Head(rows)
        priority == IF Contains(GDPR, framework.name) THEN "High" ELSE "Medium"
    IN << [framework |-> [id |-> UuidStr(framework.id),
                          name |-> framework.name,
                          description |-> framework.description],
           priority |-> priority,
           description |-> "Recommended based on your business profile"] >>
       \o SynthesizeUnfiltered(Tail(rows))

RECURSIVE Synthesize(_)
Synthesize(rows) ==
  IF rows = <<>> THEN <<>>
  ELSE
    LET framework == Head(rows)
        rest == Synthesize(Tail(rows))
    IN IF Contains(GDPR, framework.name) \/ Contains(ISO, framework.name)
       THEN LET priority == IF Contains(GDPR, framework.name) THEN "High" ELSE "Medium"
            IN << [framework |-> [id |-> UuidStr(framework.id),
                                  name |-> framework.name,
                                  description |-> framework.description],
                   priority |-> priority,
                   description |-> "Recommended based on your business profile"] >>
               \o rest
       ELSE rest

\* Variant: the synthesized entries are appended to the persisted ones.
get_assessment_recommendations_combined(db, fw, current_user, session_id, order) ==
  IF ~require_permission("assessment_list", current_user)
  THEN Forbidden("assessment_list", db)
  ELSE
    LET found == svc_get_assessment_session(db, current_user, session_id)
    IN IF found = NoSession
       THEN [trace |-> <<PermEv("assessment_list"),
                         SvcSessionEv("get_assessment_session", current_user, session_id)>>,
             response |-> HTTPException(HTTP_404_NOT_FOUND, "Assessment session not found"),
             db |-> db]
       ELSE
         [trace |-> <<PermEv("assessment_list"),
                      SvcSessionEv("get_assessment_session", current_user, session_id),
                      DbExecuteEv>>,
          response |-> PlainResponse(HTTP_200_OK,
                         [kind |-> "recommendations",
                          recommendations |->
                            found.session.recommendations.items
                              \o Synthesize(SelectActive(fw, order))]),
          db |-> db]

\* Variant: the synthesized list is stored on the session before it is returned.
get_assessment_recommendations_storing(db, fw, current_user, session_id, order) ==
  IF ~require_permission("assessment_list", current_user)
  THEN Forbidden("assessment_list", db)
  ELSE
    LET found == svc_get_assessment_session(db, current_user, session_id)
    IN IF found = NoSession
       THEN [trace |-> <<PermEv("assessment_list"),
                         SvcSessionEv("get_assessment_session", current_user, session_id)>>,
             response |-> HTTPException(HTTP_404_NOT_FOUND, "Assessment session not found"),
             db |-> db]
       ELSE
         LET recommendations ==
               IF TruthyList(found.session.recommendations)
               THEN found.session.recommendations.items
               ELSE Synthesize(SelectActive(fw, order))
         IN [trace |-> <<PermEv("assessment_list"),
                         SvcSessionEv("get_assessment_session", current_user, session_id),
                         DbExecuteEv>>,
             response |-> PlainResponse(HTTP_200_OK,
                            [kind |-> "recommendations",
                             recommendations |-> recommendations]),
             db |-> [db EXCEPT ![session_id].recommendations = List(recommendations)]]

get_assessment_recommendations(db, fw, current_user, session_id, order) ==
  IF ~require_permission("assessment_list", current_user)
  THEN Forbidden("assessment_list", db)
  ELSE
    LET found == svc_get_assessment_session(db, current_user, session_id)
    IN IF found = NoSession
       THEN [trace |-> <<PermEv("assessment_list"),
                         SvcSessionEv("get_assessment_session", current_user, session_id)>>,
             response |-> HTTPException(HTTP_404_NOT_FOUND, "Assessment session not found"),
             db |-> db]
       ELSE
         LET session == found.session
             frameworks_rows == SelectActive(fw, order)
             recommendations ==
               IF TruthyList(session.recommendations)
               THEN session.recommendations.items
               ELSE Synthesize(frameworks_rows)
         IN [trace |-> <<PermEv("assessment_list"),
                         SvcSessionEv("get_assessment_session", current_user, session_id),
                         DbExecuteEv>>,
             response |-> PlainResponse(HTTP_200_OK,
                            [kind |-> "recommendations",
                             recommendations |-> recommendations]),
             db |-> db]

\* --------------------------------------------------------- state machine
\* sessions   : the session table behind AssessmentService, indexed by id
\* active     : the ids of the ComplianceFramework rows whose is_active is set
\* last       : the most recent request (its operation and a note on what it
\*              asked for) and what the client saw of its response (status,
\*              kind of body, number of recommendations)
\* written    : history of the update requests that were answered with a
\*              session: per (session id, question id) the value sent last
NoRequest == [op |-> "none", note |-> "", status |-> 0, kind |-> "None", count |-> 0]

Init ==
  /\ sessions = <<>>
  /\ active = DefaultActive
  /\ last = NoRequest
  /\ written = {}

\* The number of recommendations a response body carries.
Count(body) ==
  IF body.kind \in {"quick", "recommendations"} THEN Len(body.recommendations) ELSE 0

\* One request handled from start to end.
Handle(op, note, r) ==
  /\ sessions' = r.db
  /\ last' = [op |-> op, note |-> note,
              status |-> r.response.status, kind |-> r.response.body.kind,
              count |-> Count(r.response.body)]
  /\ UNCHANGED active

Record(sid, q, v, r) ==
  IF r.response.status = HTTP_200_OK /\ r.response.body.kind = "session"
  THEN written' = {t \in written : ~(t[1] = sid /\ t[2] = q)} \cup {<<sid, q, v>>}
  ELSE UNCHANGED written

\* Whether a request that passed the gate named a session of the caller.
SessionNote(u, sid, r) ==
  IF r.response.status = HTTP_403_FORBIDDEN THEN ""
  ELSE IF svc_get_assessment_session(sessions, u, sid) = NoSession THEN "no_session"
  ELSE "own_session"

\* How an update request that reached the service relates to what the
\* session held for the question before.
UpdateNote(u, sid, q, v, r) ==
  IF r.response.status = HTTP_403_FORBIDDEN THEN ""
  ELSE IF svc_get_assessment_session(sessions, u, sid) = NoSession THEN "no_session"
  ELSE IF <<q, v>> \in sessions[sid].responses THEN "repeat"
  ELSE IF \E p \in sessions[sid].responses : p[1] = q THEN "overwrite"
  ELSE "first"

QuickRequests ==
  [business_profile_id : ProfileIds, assessment_type : AssessmentTypes,
   industry_standard : BOOLEAN]

SessionCreates == [session_type : SessionTypes, business_profile_id : ProfileIds]

\* The body of PUT /{session_id}/response: question_id is a str, response a value.
TypedBodies == [question_id : QuestionIds, response : ResponseValues]

\* The body of POST /{session_id}/responses: any JSON object.
LooseBodies ==
  {d \in UNION {[K -> QuestionIds \cup ResponseValues \cup {"", None}] :
                  K \in SUBSET {"question_id", "response"}} :
     /\ "question_id" \in DOMAIN d => d["question_id"] \in QuestionIds \cup {"", None}
     /\ "response" \in DOMAIN d => d["response"] \in ResponseValues}

\* The loosely typed bodies the clients send: they carry a response.
SentLooseBodies == {d \in LooseBodies : "response" \in DOMAIN d}

Quick ==
  \E u \in Users, request \in QuickRequests :
    /\ Handle("quick_assessment", "", quick_assessment(sessions, u, request))
    /\ UNCHANGED written

ListAssessments ==
  \E u \in Users :
    /\ Handle("list_assessments", "", list_assessments(sessions, u))
    /\ UNCHANGED written

CreateAssessment ==
  \E u \in Users, session_data \in SessionCreates :
    /\ Len(sessions) < MaxSessions
    /\ Handle("create_assessment", "", create_assessment(sessions, u, session_data))
    /\ UNCHANGED written

StartAssessment ==
  \E u \in Users, session_data \in SessionCreates :
    /\ Len(sessions) < MaxSessions
    /\ Handle("start_assessment", "", start_assessment(sessions, u, session_data))
    /\ UNCHANGED written

GetCurrentSession ==
  \E u \in Users :
    /\ Handle("get_current_session", "", get_current_session(sessions, u))
    /\ UNCHANGED written

GetQuestions ==
  \E u \in Users, st \in Stages :
    /\ Handle("get_questions", "", get_questions(sessions, u, st))
    /\ UNCHANGED written

UpdateResponse ==
  \E u \in Users, sid \in RequestedIds, response_data \in TypedBodies :
    LET r == update_response(sessions, u, sid, response_data)
    IN /\ Handle("update_response",
                 UpdateNote(u, sid, response_data.question_id, response_data.response, r), r)
       /\ Record(sid, response_data.question_id, response_data.response, r)

UpdateResponses ==
  \E u \in Users, sid \in RequestedIds, response_data \in SentLooseBodies :
    LET r == update_responses(sessions, u, sid, response_data)
    IN /\ Handle("update_responses",
                 IF r.response.status = HTTP_403_FORBIDDEN THEN ""
                 ELSE IF "question_id" \notin DOMAIN response_data THEN "no_question_id"
                 ELSE IF ~Truthy(response_data["question_id"]) THEN "falsy_question_id"
                 ELSE UpdateNote(u, sid, response_data["question_id"],
                                 DictGet(response_data, "response"), r), r)
       /\ Record(sid, DictGet(response_data, "question_id"),
                 DictGet(response_data, "response"), r)

GetAssessmentSession ==
  \E u \in Users, sid \in RequestedIds :
    LET r == get_assessment_session(sessions, u, sid)
    IN /\ Handle("get_assessment_session", SessionNote(u, sid, r), r)
       /\ UNCHANGED written

GetAssessmentRecommendations ==
  \E u \in Users, sid \in RequestedIds, order \in RowOrders :
    LET r == get_assessment_recommendations(sessions, frameworks, u, sid, order)
    IN /\ Handle("get_assessment_recommendations", SessionNote(u, sid, r), r)
       /\ UNCHANGED written

CompleteAssessment ==
  \E u \in Users, sid \in RequestedIds, gen \in GeneratedChoices :
    LET r == complete_assessment(sessions, u, sid, gen)
    IN /\ Handle("complete_assessment", SessionNote(u, sid, r), r)
       /\ UNCHANGED written

Next ==
  \/ Quick
  \/ ListAssessments
  \/ CreateAssessment
  \/ StartAssessment
  \/ GetCurrentSession
  \/ GetQuestions
  \/ UpdateResponse
  \/ UpdateResponses
  \/ GetAssessmentSession
  \/ GetAssessmentRecommendations
  \/ CompleteAssessment

Spec == Init /\ [][Next]_vars

TypeOK ==
  /\ Len(sessions) <= MaxSessions
  /\ \A i \in 1..Len(sessions) : sessions[i].id = i /\ sessions[i].user \in Users

\* ------------------------------------------- recommendation specification
\* The recommendations operation as a function of the session's persisted
\* list and of the framework table: every table over the catalogue, and one
\* session in each of the states the service leaves a session in.
RecSessions ==
  {NewSession(1, "alice", "compliance_setup", "bp1")}
    \cup {[NewSession(1, "alice", "compliance_setup", "bp1")
             EXCEPT !.status = "completed", !.recommendations = gen] :
            gen \in GeneratedChoices \cup {List(<<>>), List(<<PersistedA>>)}}

InitRec ==
  /\ sessions \in {<<s>> : s \in RecSessions}
  /\ active \in SUBSET (1..NumFrameworks)
  /\ last = NoRequest
  /\ written = {}

NextRec == GetAssessmentRecommendations

SpecRec == InitRec /\ [][NextRec]_vars

\* ---------------------------------------------------------------- checks
Has(u, p) == p \in Grants[u]

Ops ==
  {"quick_assessment", "list_assessments", "create_assessment", "start_assessment",
   "get_current_session", "get_questions", "update_response", "update_responses",
   "get_assessment_session", "get_assessment_recommendations", "complete_assessment"}

\* Every request of an operation with the outcome the handler gives it in the
\* current state.
Results(op) ==
  CASE op = "quick_assessment" ->
         {[u |-> u, r |-> quick_assessment(sessions, u, q)] :
            u \in Users, q \in QuickRequests}
    [] op = "list_assessments" ->
         {[u |-> u, r |-> list_assessments(sessions, u)] : u \in Users}
    [] op = "create_assessment" ->
         {[u |-> u, r |-> create_assessment(sessions, u, sd)] :
            u \in Users, sd \in SessionCreates}
    [] op = "start_assessment" ->
         {[u |-> u, r |-> start_assessment(sessions, u, sd)] :
            u \in Users, sd \in SessionCreates}
    [] op = "get_current_session" ->
         {[u |-> u, r |-> get_current_session(sessions, u)] : u \in Users}
    [] op = "get_questions" ->
         {[u |-> u, r |-> get_questions(sessions, u, st)] : u \in Users, st \in Stages}
    [] op = "update_response" ->
         {[u |-> u, r |-> update_response(sessions, u, sid, d)] :
            u \in Users, sid \in RequestedIds, d \in TypedBodies}
    [] op = "update_responses" ->
         {[u |-> u, r |-> update_responses(sessions, u, sid, d)] :
            u \in Users, sid \in RequestedIds, d \in LooseBodies}
    [] op = "get_assessment_session" ->
         {[u |-> u, r |-> get_assessment_session(sessions, u, sid)] :
            u \in Users, sid \in RequestedIds}
    [] op = "get_assessment_recommendations" ->
         {[u |-> u, r |-> get_assessment_recommendations(sessions, frameworks, u, sid, o)] :
            u \in Users, sid \in RequestedIds, o \in RowOrders}
    [] OTHER ->
         {[u |-> u, r |-> complete_assessment(sessions, u, sid, gen)] :
            u \in Users, sid \in RequestedIds, gen \in GeneratedChoices}

\* The response one fixed caller gets for one fixed profile and type.
QuickReference(flag) ==
  quick_assessment(sessions, "alice",
    [business_profile_id |-> "bp1", assessment_type |-> "basic",
     industry_standard |-> flag]).response

QuickShape(recs) == [i \in 1..Len(recs) |-> <<recs[i].framework.name, recs[i].priority>>]

\* C1: a quick-assessment request that passes the gate gets exactly one
\* recommendation (GDPR, "high") when industry_standard is false and exactly
\* three, in the order GDPR ("high"), ISO 27001 ("medium"), SOC 2 ("medium"),
\* when it is true; two requests with the same flag get the same response
\* whatever the caller, business_profile_id and assessment_type.
C1_QuickByFlag ==
  \A u \in Users, request \in QuickRequests :
    Has(u, "assessment_create") =>
      LET r == quick_assessment(sessions, u, request)
      IN /\ r.response.status = HTTP_200_OK
         /\ r.response.body.kind = "quick"
         /\ QuickShape(r.response.body.recommendations) =
              IF request.industry_standard
              THEN << <<"GDPR (General Data Protection Regulation)", "high">>,
                      <<"ISO 27001", "medium">>, <<"SOC 2", "medium">> >>
              ELSE << <<"GDPR (General Data Protection Regulation)", "high">> >>
         /\ r.response = QuickReference(request.industry_standard)

C1_Witness ==
  last.op = "quick_assessment" /\ last.status = HTTP_200_OK /\ last.count = 3

\* C2: a get-by-id, get-recommendations or complete request that passed the
\* gate and named a session id for which the service finds no session of the
\* caller ended in Not-Found with an error body.
C2_NotFoundOnMissing ==
  (/\ last.op \in {"get_assessment_session", "get_assessment_recommendations",
                   "complete_assessment"}
   /\ last.note = "no_session")
    => (last.status = HTTP_404_NOT_FOUND /\ last.kind = "error")

\* C3: a request to POST /{session_id}/responses whose body has no
\* question_id never reaches update_assessment_response and leaves the session
\* table as it was; when the caller passes the gate the answer is Bad-Request.
C3_NoQuestionIdRejected ==
  \A u \in Users, sid \in RequestedIds, d \in LooseBodies :
    "question_id" \notin DOMAIN d =>
      LET r == update_responses(sessions, u, sid, d)
      IN /\ Has(u, "assessment_update") =>
              r.response = HTTPException(HTTP_400_BAD_REQUEST, "question_id is required")
         /\ \A i \in 1..Len(r.trace) : r.trace[i].name # "update_assessment_response"
         /\ r.db = sessions

C3_Witness ==
  /\ last.op = "update_responses"
  /\ last.note = "no_question_id"
  /\ last.status = HTTP_400_BAD_REQUEST
  /\ \E i \in 1..Len(sessions) : sessions[i].responses # {}

\* The priority the fallback gives each framework of the catalogue, "" for a
\* framework it omits: "GDPR Foo", "ISO 9000", "Privacy Act", "Other",
\* "ISO/GDPR", "gdpr iso".
ExpectedPriority == <<"High", "Medium", "", "", "High", "">>

ExpectedEntry(f) ==
  [framework |-> [id |-> UuidStr(f.id), name |-> f.name, description |-> f.description],
   priority |-> ExpectedPriority[f.id],
   description |-> "Recommended based on your business profile"]

Listed(fw) == {i \in 1..Len(fw) : fw[i].is_active /\ ExpectedPriority[i] # ""}

\* C4: for a found session without persisted recommendations (None or an
\* empty list) the recommendations operation returns exactly one entry for
\* each active framework whose name contains "GDPR" (priority "High") or
\* otherwise "ISO" (priority "Medium"), with the fixed description, and no
\* entry for any other framework.
C4_FallbackSynthesis ==
  \A u \in Users, sid \in RequestedIds, o \in RowOrders :
    LET found == svc_get_assessment_session(sessions, u, sid)
        r == get_assessment_recommendations(sessions, frameworks, u, sid, o)
    IN (/\ Has(u, "assessment_list")
        /\ found # NoSession
        /\ ~TruthyList(found.session.recommendations))
         => /\ r.response.status = HTTP_200_OK
            /\ r.response.body.kind = "recommendations"
            /\ LET recs == r.response.body.recommendations
               IN /\ Len(recs) = Cardinality(Listed(frameworks))
                  /\ \A i \in Listed(frameworks) :
                       \E k \in 1..Len(recs) : recs[k] = ExpectedEntry(frameworks[i])

C4_Witness ==
  /\ last.op = "get_assessment_recommendations"
  /\ last.status = HTTP_200_OK
  /\ last.note = "own_session"
  /\ \A i \in 1..Len(sessions) : ~TruthyList(sessions[i].recommendations)
  /\ last.count = 2
  /\ {i \in 1..NumFrameworks : frameworks[i].is_active} = {1, 2, 3, 4}

\* C5: for a found session with a persisted, non-empty recommendation list
\* the recommendations operation returns that list verbatim under every
\* framework table; the list returned for any found session is the persisted
\* list or consists of synthesized entries only.
C5_PersistedVerbatim ==
  \A u \in Users, sid \in RequestedIds, o \in RowOrders :
    LET found == svc_get_assessment_session(sessions, u, sid)
        r == get_assessment_recommendations(sessions, frameworks, u, sid, o)
    IN (Has(u, "assessment_list") /\ found # NoSession)
         => /\ r.response.body.kind = "recommendations"
            /\ LET recs == r.response.body.recommendations
                   persisted == found.session.recommendations
               IN /\ TruthyList(persisted) =>
                       /\ recs = persisted.items
                       /\ \A on \in SUBSET (1..NumFrameworks), o2 \in RowOrders :
                            get_assessment_recommendations(
                              sessions, FrameworkRows(on), u, sid, o2).response
                              = r.response
                  /\ \/ TruthyList(persisted) /\ recs = persisted.items
                     \/ \A k \in 1..Len(recs) :
                          /\ \E i \in Listed(frameworks) : recs[k] = ExpectedEntry(frameworks[i])
                          /\ \A n \in 1..Len(persisted.items) : recs[k] # persisted.items[n]

C5_Witness ==
  /\ last.op = "get_assessment_recommendations"
  /\ last.status = HTTP_200_OK
  /\ last.note = "own_session"
  /\ \A i \in 1..Len(sessions) :
       /\ TruthyList(sessions[i].recommendations)
       /\ last.count = Len(sessions[i].recommendations.items)
  /\ Listed(frameworks) # {}

\* The permission each operation is said to require.
StatedPermission(op) ==
  IF op \in {"quick_assessment", "create_assessment", "start_assessment"}
  THEN "assessment_create"
  ELSE IF op \in {"list_assessments", "get_current_session", "get_questions",
                  "get_assessment_session", "get_assessment_recommendations"}
  THEN "assessment_list"
  ELSE "assessment_update"

\* C6: the first thing every request does is the check of the permission
\* stated for its operation (quick, create, start: assessment_create; list,
\* get-current, questions, get-by-id, recommendations: assessment_list; both
\* update routes and complete: assessment_update); service calls and database
\* queries come only after it; a request the gate rejects ends Forbidden with
\* no service call, no database query and the session table untouched, and no
\* other request ends Forbidden.
C6_PermissionFirst ==
  \A op \in Ops : \A x \in Results(op) :
    LET tr == x.r.trace
        p == StatedPermission(op)
    IN /\ Len(tr) >= 1
       /\ tr[1] = PermEv(p)
       /\ \A i \in 2..Len(tr) : tr[i].ev \in {"service", "db.execute"}
       /\ ~Has(x.u, p) =>
            /\ tr = <<PermEv(p)>>
            /\ x.r.response.status = HTTP_403_FORBIDDEN
            /\ x.r.db = sessions
       /\ Has(x.u, p) => x.r.response.status # HTTP_403_FORBIDDEN

C6_Witness ==
  /\ last.op = "complete_assessment"
  /\ last.status = HTTP_403_FORBIDDEN
  /\ \E i \in 1..Len(sessions) : sessions[i].status = "in_progress"

AnsweredWithSession(r) ==
  r.response.status = HTTP_200_OK /\ r.response.body.kind = "session"

\* C7: each session holds, for every question id that an answered update
\* named, exactly one response, the value of the most recent such update, and
\* nothing else; sending an update a second time leaves the state the first
\* one produced.
C7_LastWriteWins ==
  /\ \A i \in 1..Len(sessions) :
       /\ sessions[i].responses = {<<w[2], w[3]>> : w \in {t \in written : t[1] = i}}
       /\ \A p1, p2 \in sessions[i].responses : p1[1] = p2[1] => p1 = p2
  /\ \A w \in written : w[1] \in 1..Len(sessions)
  /\ \A u \in Users, sid \in RequestedIds, d \in TypedBodies :
       LET r1 == update_response(sessions, u, sid, d)
           r2 == update_response(r1.db, u, sid, d)
       IN /\ r2.db = r1.db
          /\ r2.response = r1.response
          /\ AnsweredWithSession(r1) =>
               {p \in r1.db[sid].responses : p[1] = d.question_id}
                 = {<<d.question_id, d.response>>}
  /\ \A u \in Users, sid \in RequestedIds, d \in LooseBodies :
       LET r1 == update_responses(sessions, u, sid, d)
           r2 == update_responses(r1.db, u, sid, d)
       IN /\ r2.db = r1.db
          /\ r2.response = r1.response
          /\ AnsweredWithSession(r1) =>
               {p \in r1.db[sid].responses : p[1] = d["question_id"]}
                 = {<<d["question_id"], DictGet(d, "response")>>}

C7_Witness ==
  /\ last.op \in {"update_response", "update_responses"}
  /\ last.note = "overwrite"
  /\ last.status = HTTP_200_OK
  /\ \E i \in 1..Len(sessions) : Cardinality(sessions[i].responses) = 2

\* The strongly typed request that names the same question id and response.
TypedOf(d) == [question_id |-> d["question_id"], response |-> d["response"]]

\* C8 as stated: the loosely typed route answers Bad-Request when question_id
\* is absent, and for every body in which question_id is present with a str
\* value, whatever the value, it makes the same update_assessment_response
\* call and returns the same result as the strongly typed route.
C8_PresentDelegates ==
  \A u \in Users, sid \in RequestedIds, d \in LooseBodies :
    LET r == update_responses(sessions, u, sid, d)
    IN /\ ("question_id" \notin DOMAIN d /\ Has(u, "assessment_update"))
            => r.response.status = HTTP_400_BAD_REQUEST
       /\ ("question_id" \in DOMAIN d /\ d["question_id"] # None
             /\ "response" \in DOMAIN d)
            => r = update_response(sessions, u, sid, TypedOf(d))

\* C8 amended: the loosely typed route answers Bad-Request when question_id
\* is absent or falsy (null, empty string), making no service call; for every
\* body whose question_id is truthy it makes the update_assessment_response
\* call with the caller, the session id, that question id and the body's
\* response (None when absent), and when the response is present the trace,
\* the result and the effect equal those of the strongly typed route.
C8_TruthyDelegates ==
  \A u \in Users, sid \in RequestedIds, d \in LooseBodies :
    LET r == update_responses(sessions, u, sid, d)
        q == DictGet(d, "question_id")
    IN /\ (~Truthy(q) /\ Has(u, "assessment_update"))
            => /\ r.response = HTTPException(HTTP_400_BAD_REQUEST, "question_id is required")
               /\ r.trace = <<PermEv("assessment_update")>>
               /\ r.db = sessions
       /\ (Truthy(q) /\ Has(u, "assessment_update"))
            => r.trace = <<PermEv("assessment_update"),
                           SvcUpdateEv(u, sid, q, DictGet(d, "response"))>>
       /\ (Truthy(q) /\ "response" \in DOMAIN d)
            => r = update_response(sessions, u, sid, TypedOf(d))

C8_Witness ==
  /\ last.op = "update_responses"
  /\ last.status = HTTP_200_OK
  /\ last.kind = "session"
  /\ last.note = "first"

\* C9: POST / and POST /start give every request the same trace, response and
\* effect; a request that passes the assessment_create gate makes exactly one
\* start_assessment_session call with the caller, the session type and the
\* business-profile id, and ends 201 with the new session or with the
\* service's failure.
C9_CreateEqualsStart ==
  \A u \in Users, sd \in SessionCreates :
    LET a == create_assessment(sessions, u, sd)
        b == start_assessment(sessions, u, sd)
    IN /\ a = b
       /\ a.trace[1] = PermEv("assessment_create")
       /\ Has(u, "assessment_create") =>
            /\ a.trace = <<PermEv("assessment_create"),
                           SvcStartEv(u, sd.session_type, sd.business_profile_id)>>
            /\ \/ /\ a.response.status = HTTP_201_CREATED
                  /\ a.response.body.kind = "session"
                  /\ a.db = Append(sessions, a.response.body.session)
               \/ /\ a.response = ServiceFailure
                  /\ a.db = sessions

C9_Witness ==
  /\ last.op = "create_assessment"
  /\ last.status = HTTP_201_CREATED
  /\ Len(sessions) = MaxSessions

ReadOps ==
  {"quick_assessment", "list_assessments", "get_current_session", "get_questions",
   "get_assessment_session", "get_assessment_recommendations"}

MutatingCalls ==
  {"start_assessment_session", "update_assessment_response", "complete_assessment_session"}

\* C10: quick, list, get-current, get-by-id, questions and recommendations
\* requests leave the session table as it was; a quick request makes no
\* service call and no query; a request changes the session table only if it
\* is a create/start, update or complete request that called
\* start_assessment_session, update_assessment_response or
\* complete_assessment_session.
C10_ReadsLeaveSessions ==
  /\ \A op \in ReadOps : \A x \in Results(op) : x.r.db = sessions
  /\ \A x \in Results("quick_assessment") :
       \A i \in 1..Len(x.r.trace) : x.r.trace[i].ev = "require_permission"
  /\ \A op \in Ops : \A x \in Results(op) :
       x.r.db # sessions =>
         /\ op \notin ReadOps
         /\ \E i \in 1..Len(x.r.trace) : x.r.trace[i].name \in MutatingCalls

C10_Witness ==
  /\ last.op = "get_assessment_recommendations"
  /\ last.status = HTTP_200_OK
  /\ last.note = "own_session"
  /\ last.count > 0
  /\ \A i \in 1..Len(sessions) : sessions[i].recommendations = NoneList

====
